---- MODULE Spec2Model ----
(***************************************************************************)
(* The particle animation hook useAtomAnimation                            *)
(* (src/components/hooks/useAtomAnimation.ts) together with the part of    *)
(* App (src/App.tsx) that feeds it: the placed-atom list, the loading flag *)
(* passed as isPaused, and the browser's animation-frame queue.            *)
(*                                                                         *)
(* Numbers.  The hook computes on IEEE doubles.  The model computes on     *)
(* fixed-point integers: a length or a velocity is a whole number of       *)
(* 1/PX pixel, a cosine or sine a whole number of 1/TRIG, a factor such as *)
(* 0.98 a whole number of hundredths.  Every product of two such values is *)
(* rounded to the nearest unit (RoundDiv), which stands for the rounding   *)
(* of the floating-point operation at a coarser grain.                     *)
(***************************************************************************)
EXTENDS Integers, Sequences, FiniteSets, TLC

\* ------------------------------------------------------------ arithmetic

\* Units per pixel of every position, radius and velocity.
PX == 100

\* Units of a cosine or sine value (1000 = 1.0).
TRIG == 1000

\* Units of a factor written as a decimal fraction in the source (100 = 1.0).
HUNDRED == 100

Abs(n) == IF n < 0 THEN -n ELSE n

\* n / d rounded to the nearest integer, ties away from zero (d > 0).
RoundDiv(n, d) ==
    IF n >= 0 THEN (2 * n + d) \div (2 * d)
              ELSE -((2 * (-n) + d) \div (2 * d))

\* v * (pct / 100): a multiplication by a decimal factor of the source.
Scale(v, pct) == RoundDiv(v * pct, HUNDRED)

RECURSIVE SqrtSearch(_, _, _)
\* The largest r in lo..hi with r * r <= n.
SqrtSearch(n, lo, hi) ==
    IF lo >= hi THEN lo
    ELSE LET mid == (lo + hi + 1) \div 2
         IN  IF mid * mid <= n THEN SqrtSearch(n, mid, hi)
                               ELSE SqrtSearch(n, lo, mid - 1)

\* Math.sqrt on a square of units, truncated to a whole unit: for whole m,
\* MathSqrt(n) < m exactly when n < m * m, so comparisons of a distance with
\* a sum of radii come out as they do on the reals.
MathSqrt(n) == SqrtSearch(n, 0, 46340)

Max(a, b) == IF a >= b THEN a ELSE b

\* The length every direction is stretched to before its cosine and sine are
\* taken, so that the truncation of MathSqrt is below their resolution.
DIRECTION_LENGTH == 30000

\* MathAtan2 with a right angle for Math.atan2(0, 0).
MathAtan2RightAngleAtOrigin(dy, dx) ==
    IF dx = 0 /\ dy = 0 THEN <<DIRECTION_LENGTH, 0>>
    ELSE <<(DIRECTION_LENGTH \div Max(Abs(dx), Abs(dy))) * dy,
           (DIRECTION_LENGTH \div Max(Abs(dx), Abs(dy))) * dx>>

\* Math.atan2(dy, dx): the angle is kept as the direction <<dy, dx>> it
\* denotes, stretched to about DIRECTION_LENGTH; the source only ever takes
\* its cosine and sine.  Math.atan2(0, 0) is 0, the direction of the x axis.
MathAtan2(dy, dx) ==
    IF dx = 0 /\ dy = 0 THEN <<0, DIRECTION_LENGTH>>
    ELSE LET k == DIRECTION_LENGTH \div Max(Abs(dx), Abs(dy))
         IN  <<k * dy, k * dx>>

\* Math.cos / Math.sin of an angle produced by MathAtan2, in 1/TRIG.
MathCos(angle) ==
    RoundDiv(TRIG * angle[2], MathSqrt(angle[1] * angle[1] + angle[2] * angle[2]))

MathSin(angle) ==
    RoundDiv(TRIG * angle[1], MathSqrt(angle[1] * angle[1] + angle[2] * angle[2]))

\* <<cos, sin>> of (index / length) * 2 * Math.PI for index = 0 .. length-1,
\* in 1/TRIG, for the list lengths the model reaches.
UnitCircle(length) ==
    CASE length = 1 -> << <<1000, 0>> >>
      [] length = 2 -> << <<1000, 0>>, <<-1000, 0>> >>
      [] length = 3 -> << <<1000, 0>>, <<-500, 866>>, <<-500, -866>> >>
      [] length = 4 -> << <<1000, 0>>, <<0, 1000>>, <<-1000, 0>>, <<0, -1000>> >>
      [] length = 5 -> << <<1000, 0>>, <<309, 951>>, <<-809, 588>>,
                          <<-809, -588>>, <<309, -951>> >>
      [] length = 6 -> << <<1000, 0>>, <<500, 866>>, <<-500, 866>>,
                          <<-1000, 0>>, <<-500, -866>>, <<500, -866>> >>

\* ------------------------------------------------------------ constants

\* const VELOCITY_DECAY = 0.98, in hundredths.
VELOCITY_DECAY == 98

\* const PUSH_FORCE = 0.5 pixel per frame, in units of 1/PX pixel.
PUSH_FORCE == 50

\* const BOUNDARY_DAMPING = -0.7, in hundredths.
BOUNDARY_DAMPING == -70

\* The pull 0.08 of the converging branch, in hundredths.
CONVERGE_PULL == 8

\* const radius = 40 (cluster radius), in pixels.
CLUSTER_RADIUS == 40

\* ------------------------------------------------------------ the hook's pure steps
\* An Atom (types.ts) as the model keeps it: [instanceId, id, radius, x, y];
\* an AnimatedAtom adds vx and vy.  id is the element's id in ATOMS and stands
\* for the visual attributes copied with it.

\* (Math.random() - 0.5) * 4 for a draw r of Math.random() given in hundredths.
RandomVelocity(r) == RoundDiv((r - 50) * 4 * PX, HUNDRED)

\* prevAtoms.find(p => p.instanceId === instanceId): the index of the first
\* match, 0 for undefined.
FindIndex(prevAtoms, instanceId) ==
    IF \E k \in 1..Len(prevAtoms) : prevAtoms[k].instanceId = instanceId
    THEN CHOOSE k \in 1..Len(prevAtoms) :
            /\ prevAtoms[k].instanceId = instanceId
            /\ \A m \in 1..(k - 1) : prevAtoms[m].instanceId # instanceId
    ELSE 0

\* The indices of initialAtoms for which the updater builds a new particle.
NewIndices(prevAtoms, initialAtoms) ==
    {k \in 1..Len(initialAtoms) : FindIndex(prevAtoms, initialAtoms[k].instanceId) = 0}

\* The new particle of the updater: the atom's fields, its position, and two
\* draws of Math.random() (rnd = <<draw for vx, draw for vy>>).
NewParticle(initialAtom, rnd) ==
    [instanceId |-> initialAtom.instanceId,
     id         |-> initialAtom.id,
     radius     |-> initialAtom.radius,
     x          |-> initialAtom.x,
     y          |-> initialAtom.y,
     vx         |-> RandomVelocity(rnd[1]),
     vy         |-> RandomVelocity(rnd[2])]

\* ReconcileAtoms without the removal of the particles whose id has left the
\* input: they stay behind the particles of the input.
ReconcileAtomsKeepingRemoved(prevAtoms, initialAtoms, draws) ==
    LET newAtoms ==
            [k \in 1..Len(initialAtoms) |->
                LET existing == FindIndex(prevAtoms, initialAtoms[k].instanceId)
                IN  IF existing # 0 THEN prevAtoms[existing]
                    ELSE NewParticle(initialAtoms[k], draws[k])]
        Removed(a) == \A i \in 1..Len(initialAtoms) :
                        initialAtoms[i].instanceId # a.instanceId
    IN  newAtoms \o SelectSeq(prevAtoms, Removed)

\* ReconcileAtoms with the radius of an existing particle taken from the
\* input atom.
ReconcileAtomsTakingRadius(prevAtoms, initialAtoms, draws) ==
    [k \in 1..Len(initialAtoms) |->
        IF FindIndex(prevAtoms, initialAtoms[k].instanceId) # 0
        THEN [prevAtoms[FindIndex(prevAtoms, initialAtoms[k].instanceId)]
                 EXCEPT !.radius = initialAtoms[k].radius]
        ELSE NewParticle(initialAtoms[k], draws[k])]

\* The updater of the reconcile effect.  draws maps each index that gets a
\* new particle to its two draws of Math.random().
ReconcileAtoms(prevAtoms, initialAtoms, draws) ==
    LET newAtoms ==
            [k \in 1..Len(initialAtoms) |->
                LET existing == FindIndex(prevAtoms, initialAtoms[k].instanceId)
                IN  IF existing # 0 THEN prevAtoms[existing]
                    ELSE NewParticle(initialAtoms[k], draws[k])]
        Kept(a) == \E i \in 1..Len(initialAtoms) :
                        initialAtoms[i].instanceId = a.instanceId
    IN  SelectSeq(newAtoms, Kept)

\* ConvergeAtom without vx: 0, vy: 0.
ConvergeAtomKeepingVelocity(atom, index, length, canvasWidth, canvasHeight) ==
    LET angle   == UnitCircle(length)[index + 1]
        targetX == RoundDiv(canvasWidth, 2)
                     + RoundDiv(angle[1] * CLUSTER_RADIUS * PX, TRIG)
        targetY == RoundDiv(canvasHeight, 2)
                     + RoundDiv(angle[2] * CLUSTER_RADIUS * PX, TRIG)
        newX    == atom.x + Scale(targetX - atom.x, CONVERGE_PULL)
        newY    == atom.y + Scale(targetY - atom.y, CONVERGE_PULL)
    IN  [atom EXCEPT !.x = newX, !.y = newY]

\* ConvergeAtom with radius = 0: every target is the centre of the surface.
ConvergeAtomTowardsCentre(atom, index, length, canvasWidth, canvasHeight) ==
    [atom EXCEPT !.x = atom.x + Scale(RoundDiv(canvasWidth, 2) - atom.x, CONVERGE_PULL),
                 !.y = atom.y + Scale(RoundDiv(canvasHeight, 2) - atom.y, CONVERGE_PULL),
                 !.vx = 0, !.vy = 0]

\* ConvergeAtom with the pull 0.16 in place of 0.08.
ConvergeAtomPullingTwice(atom, index, length, canvasWidth, canvasHeight) ==
    LET angle   == UnitCircle(length)[index + 1]
        targetX == RoundDiv(canvasWidth, 2)
                     + RoundDiv(angle[1] * CLUSTER_RADIUS * PX, TRIG)
        targetY == RoundDiv(canvasHeight, 2)
                     + RoundDiv(angle[2] * CLUSTER_RADIUS * PX, TRIG)
        newX    == atom.x + Scale(targetX - atom.x, 2 * CONVERGE_PULL)
        newY    == atom.y + Scale(targetY - atom.y, 2 * CONVERGE_PULL)
    IN  [atom EXCEPT !.x = newX, !.y = newY, !.vx = 0, !.vy = 0]

\* One particle of the converging branch (isPaused): index is 0-based.
ConvergeAtom(atom, index, length, canvasWidth, canvasHeight) ==
    LET angle   == UnitCircle(length)[index + 1]
        targetX == RoundDiv(canvasWidth, 2)
                     + RoundDiv(angle[1] * CLUSTER_RADIUS * PX, TRIG)
        targetY == RoundDiv(canvasHeight, 2)
                     + RoundDiv(angle[2] * CLUSTER_RADIUS * PX, TRIG)
        newX    == atom.x + Scale(targetX - atom.x, CONVERGE_PULL)
        newY    == atom.y + Scale(targetY - atom.y, CONVERGE_PULL)
    IN  [atom EXCEPT !.x = newX, !.y = newY, !.vx = 0, !.vy = 0]

\* ConvergeStep with the map starting at the second particle.
ConvergeStepFromSecond(prevAtoms, canvasWidth, canvasHeight) ==
    [k \in 1..Len(prevAtoms) |->
        IF k = 1 THEN prevAtoms[k]
        ELSE ConvergeAtom(prevAtoms[k], k - 1, Len(prevAtoms), canvasWidth, canvasHeight)]

\* The converging branch of the updater of animate.
ConvergeStep(prevAtoms, canvasWidth, canvasHeight) ==
    [k \in 1..Len(prevAtoms) |->
        ConvergeAtom(prevAtoms[k], k - 1, Len(prevAtoms), canvasWidth, canvasHeight)]

\* JSON.parse(JSON.stringify(prevAtoms)): a fresh list of fresh objects with
\* the own fields of each particle.  Every field is a string or a finite
\* number, which the round trip keeps.
JsonClone(prevAtoms) ==
    [k \in 1..Len(prevAtoms) |->
        [instanceId |-> prevAtoms[k].instanceId,
         id         |-> prevAtoms[k].id,
         radius     |-> prevAtoms[k].radius,
         x          |-> prevAtoms[k].x,
         y          |-> prevAtoms[k].y,
         vx         |-> prevAtoms[k].vx,
         vy         |-> prevAtoms[k].vy]]

\* if (atomA.x + atomA.radius > canvasWidth) { ... }.
RightEdge(atomA, canvasWidth) ==
    IF atomA.x + atomA.radius > canvasWidth
    THEN [atomA EXCEPT !.x = canvasWidth - atomA.radius,
                       !.vx = Scale(atomA.vx, BOUNDARY_DAMPING)]
    ELSE atomA

\* if (atomA.x - atomA.radius < 0) { ... }.
LeftEdge(atomA) ==
    IF atomA.x - atomA.radius < 0
    THEN [atomA EXCEPT !.x = atomA.radius,
                       !.vx = Scale(atomA.vx, BOUNDARY_DAMPING)]
    ELSE atomA

\* if (atomA.y + atomA.radius > canvasHeight) { ... }.
BottomEdge(atomA, canvasHeight) ==
    IF atomA.y + atomA.radius > canvasHeight
    THEN [atomA EXCEPT !.y = canvasHeight - atomA.radius,
                       !.vy = Scale(atomA.vy, BOUNDARY_DAMPING)]
    ELSE atomA

\* if (atomA.y - atomA.radius < 0) { ... }.
TopEdge(atomA) ==
    IF atomA.y - atomA.radius < 0
    THEN [atomA EXCEPT !.y = atomA.radius,
                       !.vy = Scale(atomA.vy, BOUNDARY_DAMPING)]
    ELSE atomA

\* BoundaryCollision without the two tests of the near edges.
BoundaryCollisionFarEdgesOnly(atomA, canvasWidth, canvasHeight) ==
    BottomEdge(RightEdge(atomA, canvasWidth), canvasHeight)

\* The four boundary tests on atomA, in the order of the source.
BoundaryCollision(atomA, canvasWidth, canvasHeight) ==
    TopEdge(BottomEdge(LeftEdge(RightEdge(atomA, canvasWidth)), canvasHeight))

\* distance < minDistance for the pair (atomA, atomB).
Overlapping(atomA, atomB) ==
    LET dx == atomB.x - atomA.x
        dy == atomB.y - atomA.y
    IN  MathSqrt(dx * dx + dy * dy) < atomA.radius + atomB.radius

\* Push with the signs of the eight assignments exchanged.
PushTowards(atomA, atomB, overlapX, overlapY, forceX, forceY) ==
    << [atomA EXCEPT !.x = atomA.x + overlapX, !.y = atomA.y + overlapY,
                     !.vx = atomA.vx + forceX, !.vy = atomA.vy + forceY],
       [atomB EXCEPT !.x = atomB.x - overlapX, !.y = atomB.y - overlapY,
                     !.vx = atomB.vx - forceX, !.vy = atomB.vy - forceY] >>

\* The eight assignments of the body of "if (distance < minDistance)":
\* <<atomA, atomB>> after them.
Push(atomA, atomB, overlapX, overlapY, forceX, forceY) ==
    << [atomA EXCEPT !.x = atomA.x - overlapX, !.y = atomA.y - overlapY,
                     !.vx = atomA.vx - forceX, !.vy = atomA.vy - forceY],
       [atomB EXCEPT !.x = atomB.x + overlapX, !.y = atomB.y + overlapY,
                     !.vx = atomB.vx + forceX, !.vy = atomB.vy + forceY] >>

\* PushAlong with force = 0.
PushAlongWithoutImpulse(atomA, atomB, overlap, cos, sin) ==
    << [atomA EXCEPT !.x = atomA.x - RoundDiv(overlap * cos, 2 * TRIG),
                     !.y = atomA.y - RoundDiv(overlap * sin, 2 * TRIG)],
       [atomB EXCEPT !.x = atomB.x + RoundDiv(overlap * cos, 2 * TRIG),
                     !.y = atomB.y + RoundDiv(overlap * sin, 2 * TRIG)] >>

\* PushAlong moving each particle by a quarter of the overlap.
PushAlongByQuarterOverlap(atomA, atomB, overlap, cos, sin) ==
    Push(atomA, atomB,
         RoundDiv(overlap * cos, 4 * TRIG), RoundDiv(overlap * sin, 4 * TRIG),
         RoundDiv(PUSH_FORCE * cos, TRIG), RoundDiv(PUSH_FORCE * sin, TRIG))

\* That body from overlap on, given Math.cos(angle) and Math.sin(angle).
PushAlong(atomA, atomB, overlap, cos, sin) ==
    Push(atomA, atomB,
         RoundDiv(overlap * cos, 2 * TRIG), RoundDiv(overlap * sin, 2 * TRIG),
         RoundDiv(PUSH_FORCE * cos, TRIG), RoundDiv(PUSH_FORCE * sin, TRIG))

\* The body of "if (distance < minDistance)": <<atomA, atomB>> after the
\* position push and the velocity impulse.
ResolveCollision(atomA, atomB) ==
    LET dx          == atomB.x - atomA.x
        dy          == atomB.y - atomA.y
        distance    == MathSqrt(dx * dx + dy * dy)
        minDistance == atomA.radius + atomB.radius
        angle       == MathAtan2(dy, dx)
    IN  PushAlong(atomA, atomB, minDistance - distance,
                  MathCos(angle), MathSin(angle))

\* Integrate without the two multiplications by VELOCITY_DECAY.
IntegrateWithoutDecay(atomA) ==
    [atomA EXCEPT !.x = atomA.x + atomA.vx, !.y = atomA.y + atomA.vy]

\* The last four statements of the outer loop body.
Integrate(atomA) ==
    [atomA EXCEPT !.x  = atomA.x + atomA.vx,
                  !.y  = atomA.y + atomA.vy,
                  !.vx = Scale(atomA.vx, VELOCITY_DECAY),
                  !.vy = Scale(atomA.vy, VELOCITY_DECAY)]

\* A step's state while its loops run: the list newAtoms and the log of what
\* the loops did, one entry per boundary stage, pair test and integration, in
\* execution order.  An entry holds the particles it touched as it left them
\* (a = newAtoms[i], b = newAtoms[j], or a again when there is no j).
LogEntry(op, i, j, hit, a, b) ==
    [op |-> op, i |-> i, j |-> j, hit |-> hit, a |-> a, b |-> b]

\* The step's state once a stage has left particle i as atomA.
SetAtom(st, op, i, atomA) ==
    [atoms |-> [st.atoms EXCEPT ![i] = atomA],
     log   |-> Append(st.log, LogEntry(op, i, 0, FALSE, atomA, atomA))]

\* The step's state once the pair test of (i, j) has left them as pair.
SetPair(st, i, j, hit, pair) ==
    [atoms |-> [st.atoms EXCEPT ![i] = pair[1], ![j] = pair[2]],
     log   |-> Append(st.log, LogEntry("pair", i, j, hit, pair[1], pair[2]))]

\* The body of the inner loop for the pair (i, j), hit being the outcome of
\* its test distance < minDistance.
PairStage(st, i, j, hit) ==
    SetPair(st, i, j, hit,
            IF hit THEN ResolveCollision(st.atoms[i], st.atoms[j])
                   ELSE <<st.atoms[i], st.atoms[j]>>)

RECURSIVE InnerLoop(_, _, _)
\* for (let j = ...; j < newAtoms.length; j++) of particle i, from j on
\* (1-based indices).
InnerLoop(st, i, j) ==
    IF j > Len(st.atoms) THEN st
    ELSE InnerLoop(PairStage(st, i, j, Overlapping(st.atoms[i], st.atoms[j])),
                   i, j + 1)

\* The boundary tests of particle i.
BoundaryStage(st, i, canvasWidth, canvasHeight) ==
    SetAtom(st, "boundary", i,
            BoundaryCollision(st.atoms[i], canvasWidth, canvasHeight))

\* The integration of particle i.
IntegrateStage(st, i) == SetAtom(st, "integrate", i, Integrate(st.atoms[i]))

RECURSIVE OuterLoop(_, _, _, _)
\* OuterLoop with the boundary tests of particle i moved behind its inner
\* loop.
OuterLoopBoundaryAfterPairs(st, i, canvasWidth, canvasHeight) ==
    IF i > Len(st.atoms) THEN st
    ELSE OuterLoop(
            IntegrateStage(
                BoundaryStage(InnerLoop(st, i, i + 1),
                              i, canvasWidth, canvasHeight),
                i),
            i + 1, canvasWidth, canvasHeight)

\* OuterLoop with the integration of particle i moved before its inner loop.
OuterLoopIntegrateBeforePairs(st, i, canvasWidth, canvasHeight) ==
    IF i > Len(st.atoms) THEN st
    ELSE OuterLoop(
            InnerLoop(
                IntegrateStage(BoundaryStage(st, i, canvasWidth, canvasHeight), i),
                i, i + 1),
            i + 1, canvasWidth, canvasHeight)

\* for (let i = ...; i < newAtoms.length; i++), from i on (1-based).
OuterLoop(st, i, canvasWidth, canvasHeight) ==
    IF i > Len(st.atoms) THEN st
    ELSE OuterLoop(
            IntegrateStage(
                InnerLoop(BoundaryStage(st, i, canvasWidth, canvasHeight),
                          i, i + 1),
                i),
            i + 1, canvasWidth, canvasHeight)

\* FreeRun with the outer loop started at the second particle.
FreeRunFromSecond(prevAtoms, canvasWidth, canvasHeight) ==
    OuterLoop([atoms |-> JsonClone(prevAtoms), log |-> << >>], 2,
              canvasWidth, canvasHeight)

\* The free-motion branch of the updater of animate: [atoms, log].
FreeRun(prevAtoms, canvasWidth, canvasHeight) ==
    OuterLoop([atoms |-> JsonClone(prevAtoms), log |-> << >>], 1,
              canvasWidth, canvasHeight)

\* The list the free-motion branch returns.
FreeStep(prevAtoms, canvasWidth, canvasHeight) ==
    FreeRun(prevAtoms, canvasWidth, canvasHeight).atoms

\* ReturnedAtoms without the two subtractions of the radius.
ReturnedAtomsAtCentre(atoms) == atoms

\* What the hook returns: animatedAtoms.map(a => ({...a, x: a.x - a.radius,
\* y: a.y - a.radius})), a new list of new objects.
ReturnedAtoms(atoms) ==
    [k \in 1..Len(atoms) |->
        [atoms[k] EXCEPT !.x = atoms[k].x - atoms[k].radius,
                         !.y = atoms[k].y - atoms[k].radius]]

\* ------------------------------------------------------------ bounds and inputs

\* The longest list of placed atoms (the model stops placing there).
MaxAtoms == 2

\* The last value of Date.now() (the first is 1).
MaxClock == 2

\* The number of animation frames a behaviour runs.
MaxFrames == 2

\* The entries of ATOMS the user places: the one dragged onto the canvas and
\* the one clicked in the Sidebar (element id and radius).
DroppedElement == [id |-> "H", radius |-> 20 * PX]

ClickedElement == [id |-> "O", radius |-> 15 * PX]

\* Where a drop lands: e.clientX - rect.left, e.clientY - rect.top.
DropPoints == { <<10 * PX, 50 * PX>> }

\* The pairs of values the two Math.random() calls of one new particle
\* return, in hundredths: (0.5, 0.5) and (0.9, 0.5).
RandomDraws == { <<50, 50>>, <<90, 50>> }

\* canvasRef.current: null, or an element with the width and height its
\* getBoundingClientRect() returns.
NoCanvas == [mounted |-> FALSE, width |-> 0, height |-> 0]

\* The canvas element before the browser has laid it out: 0 by 0.
UnsizedCanvas == [mounted |-> TRUE, width |-> 0, height |-> 0]

\* The canvas element once laid out.
SizedCanvas == [mounted |-> TRUE, width |-> 200 * PX, height |-> 150 * PX]

\* ------------------------------------------------------------ state

\* ------------------------------------------------------------ the analysis request

\* Strings are sequences of characters.
UpperCaseLetters ==
    <<"A", "B", "C", "D", "E", "F", "G", "H", "I", "J", "K", "L", "M", "N", "O", "P", "Q", "R", "S", "T", "U", "V", "W", "X", "Y", "Z">>

LowerCaseLetters ==
    <<"a", "b", "c", "d", "e", "f", "g", "h", "i", "j", "k", "l", "m", "n", "o", "p", "q", "r", "s", "t", "u", "v", "w", "x", "y", "z">>

\* The position of the character in the alphabet, 0 if it is not in it.
LetterIndex(alphabet, char) ==
    IF \E n \in 1..Len(alphabet) : alphabet[n] = char
    THEN CHOOSE n \in 1..Len(alphabet) : alphabet[n] = char
    ELSE 0

\* String.prototype.toUpperCase.
ToUpperCase(s) ==
    [k \in 1..Len(s) |->
        IF LetterIndex(LowerCaseLetters, s[k]) # 0
        THEN UpperCaseLetters[LetterIndex(LowerCaseLetters, s[k])]
        ELSE s[k]]

\* String.prototype.toLowerCase.
ToLowerCase(s) ==
    [k \in 1..Len(s) |->
        IF LetterIndex(UpperCaseLetters, s[k]) # 0
        THEN LowerCaseLetters[LetterIndex(UpperCaseLetters, s[k])]
        ELSE s[k]]

\* String.prototype.includes.
Includes(s, t) ==
    \E k \in 0..(Len(s) - Len(t)) : SubSeq(s, k + 1, k + Len(t)) = t

\* The codes isRetryableError takes for retryable.
RetryableCodes == {429, 500, 503}

\* The statuses it takes for retryable.
RetryableStatuses ==
    { <<"R", "E", "S", "O", "U", "R", "C", "E", "_", "E", "X", "H", "A", "U", "S", "T", "E", "D">>,
      <<"U", "N", "A", "V", "A", "I", "L", "A", "B", "L", "E">>,
      <<"U", "N", "K", "N", "O", "W", "N">> }

\* The parts of a message it takes for retryable.
RetryableMessages ==
    { <<"4", "2", "9">>,
      <<"5", "0", "0">>,
      <<"5", "0", "3">>,
      <<"q", "u", "o", "t", "a">>,
      <<"r", "a", "t", "e", " ", "l", "i", "m", "i", "t">>,
      <<"r", "e", "s", "o", "u", "r", "c", "e", "_", "e", "x", "h", "a", "u", "s", "t", "e", "d">>,
      <<"s", "e", "r", "v", "i", "c", "e", " ", "u", "n", "a", "v", "a", "i", "l", "a", "b", "l", "e">>,
      <<"x", "h", "r", " ", "e", "r", "r", "o", "r">> }

\* isRetryableError(error).  An error is [isNull, code, status, message]:
\* whether it is null or undefined, error?.error?.code (0 when undefined),
\* error?.error?.status || '', and error.message || error.toString() || ''.
IsRetryableError(error) ==
    IF error.isNull THEN FALSE
    ELSE IF error.code \in RetryableCodes THEN TRUE
    ELSE IF ToUpperCase(error.status) \in RetryableStatuses THEN TRUE
    ELSE \E t \in RetryableMessages : Includes(ToLowerCase(error.message), t)

\* const MAX_RETRIES = 3.
MAX_RETRIES == 3

\* callApiWithRetry's catch block without the test of attempt.
AfterRejectionAnyAttempt(attempt, error) ==
    IF IsRetryableError(error) THEN "delay" ELSE "throw"

\* callApiWithRetry's catch block, attempt being the count after attempt++:
\* it waits and goes round the loop again ("delay") or rethrows the error.
AfterRejection(attempt, error) ==
    IF IsRetryableError(error) /\ attempt < MAX_RETRIES THEN "delay" ELSE "throw"

\* What handleAnalyzeAtoms does with the response of the call: with no text
\* nothing, with text JSON.parse, then setFoundReactions(result) for an array
\* that is not empty and setError otherwise; a text that does not parse
\* throws into the catch block, which calls setError.  A response is
\* [hasText, parses, isArray, length].
HandleResponse(response) ==
    IF ~response.hasText THEN "nothing"
    ELSE IF ~response.parses THEN "error"
    ELSE IF response.isArray /\ response.length > 0 THEN "found"
    ELSE "none"

\* The finally block without setIsLoading(false) on the path of a thrown call.
IsLoadingAfterWithoutFinally(path) == path = "threw"

\* isLoading once handleAnalyzeAtoms has run to its end on the path "returned"
\* or "threw" of callApiWithRetry: the finally block sets it to false.
IsLoadingAfter(path) == FALSE

\* An analysis: where handleAnalyzeAtoms stands (pc: "idle" when none is in
\* flight, "call" awaiting apiCall(), "delay" awaiting the timer of the
\* retry), callApiWithRetry's attempt, and as history the number of calls of
\* apiCall, the errors they were rejected with, how callApiWithRetry ended and
\* what the handler did with it.
NoAnalysis ==
    [pc |-> "idle", attempt |-> 0, calls |-> 0, errors |-> << >>,
     result |-> [kind |-> "none"], outcome |-> "nothing"]

\* handleAnalyzeAtoms at its first await: callApiWithRetry has entered its
\* loop with attempt = 0 and called apiCall() once.
FirstCall ==
    [pc |-> "call", attempt |-> 0, calls |-> 1, errors |-> << >>,
     result |-> [kind |-> "none"], outcome |-> "nothing"]

\* The errors an API call is rejected with: one with error.code 429, one with
\* error.status 'unavailable', one with the message 'Quota', one with code 400
\* and status NOT_FOUND, and null.
ErrorSamples ==
    { [isNull |-> FALSE, code |-> 429, status |-> << >>,
       message |-> <<"[", "o", "b", "j", "e", "c", "t", " ", "O", "b", "j", "e", "c", "t", "]">>],
      [isNull |-> FALSE, code |-> 0, status |-> <<"u", "n", "a", "v", "a", "i", "l", "a", "b", "l", "e">>,
       message |-> <<"[", "o", "b", "j", "e", "c", "t", " ", "O", "b", "j", "e", "c", "t", "]">>],
      [isNull |-> FALSE, code |-> 0, status |-> << >>,
       message |-> <<"Q", "u", "o", "t", "a">>],
      [isNull |-> FALSE, code |-> 400, status |-> <<"N", "O", "T", "_", "F", "O", "U", "N", "D">>,
       message |-> <<"B", "a", "d", " ", "k", "e", "y">>],
      [isNull |-> TRUE, code |-> 0, status |-> << >>, message |-> << >>] }

\* new Error(`API call failed after ${MAX_RETRIES} attempts.`), the error
\* callApiWithRetry throws past its loop.
FailedAfterRetries ==
    [isNull |-> FALSE, code |-> 0, status |-> << >>,
     message |-> <<"A", "P", "I", " ", "c", "a", "l", "l", " ", "f", "a", "i", "l", "e", "d", " ", "a", "f", "t", "e", "r", " ", "3", " ", "a", "t", "t", "e", "m", "p", "t", "s", ".">>]

\* The responses an API call is resolved with: no text, text that is no
\* JSON, an object, an empty array, an array of one reaction.
Responses ==
    { [hasText |-> FALSE, parses |-> FALSE, isArray |-> FALSE, length |-> 0],
      [hasText |-> TRUE, parses |-> FALSE, isArray |-> FALSE, length |-> 0],
      [hasText |-> TRUE, parses |-> TRUE, isArray |-> FALSE, length |-> 0],
      [hasText |-> TRUE, parses |-> TRUE, isArray |-> TRUE, length |-> 0],
      [hasText |-> TRUE, parses |-> TRUE, isArray |-> TRUE, length |-> 1] }

VARIABLES
    now,               \* Date.now()
    placedAtoms,       \* App: placedAtoms, the hook's initialAtoms
    isLoading,         \* App: isLoading, the hook's isPaused
    mounted,           \* ReactionCanvas (and with it the hook) is mounted
    canvas,            \* canvasRef.current
    animatedAtoms,     \* the hook's particle list
    animationFrameId,  \* animationFrameId.current, 0 for null
    frameRequests,     \* the browser's pending animation-frame requests
    reconcileDue,      \* the effect on [initialAtoms] has yet to run
    animateDue,        \* the effect on [isPaused, canvasRef] has yet to run
    lastInput,         \* history: initialAtoms of the latest reconcile run
    atRest,            \* history: a converging step ran, and since then no
                       \* free step ran and no reconcile made a particle
    reentry,           \* history: isLoading went back to false, and no free
                       \* step has run since
    event,             \* history: what the latest transition did
    frames,            \* the number of frames run so far
    analysis           \* handleAnalyzeAtoms and its callApiWithRetry

vars == <<now, placedAtoms, isLoading, mounted, canvas, animatedAtoms, animationFrameId,
          frameRequests, reconcileDue, animateDue, lastInput, atRest, reentry, event,
          frames, analysis>>

\* React state of App and of the hook after the first render, before any
\* effect has run.
Init ==
    /\ now = 1
    /\ placedAtoms = << >>
    /\ isLoading = FALSE
    /\ mounted = TRUE
    /\ canvas = UnsizedCanvas
    /\ animatedAtoms = << >>
    /\ animationFrameId = 0
    /\ frameRequests = {}
    /\ reconcileDue = TRUE
    /\ animateDue = TRUE
    /\ lastInput = << >>
    /\ atRest = FALSE
    /\ reentry = FALSE
    /\ event = [kind |-> "init"]
    /\ frames = 0
    /\ analysis = NoAnalysis

\* ------------------------------------------------------------ the host (App)

\* React runs the effects a render left pending before it renders again.
EffectsFlushed == ~reconcileDue /\ ~animateDue

\* The values Date.now() may return: the time of the previous reading or a
\* later one.
DateNow == {t \in now..(now + 1) : t <= MaxClock}

\* setPlacedAtoms(prev => [...prev, newAtom]) and the render that follows,
\* for the atom picked from ATOMS and the position given: the list is a new
\* array, so the effect on [initialAtoms] is due.
PlaceAtom(atom, x, y, limit) ==
    /\ mounted
    /\ EffectsFlushed
    /\ Len(placedAtoms) < limit
    /\ \E t \in DateNow :
          /\ now' = t
          /\ placedAtoms' = Append(placedAtoms,
                                [instanceId |-> t, id |-> atom.id,
                                 radius |-> atom.radius, x |-> x, y |-> y])
    /\ reconcileDue' = TRUE
    /\ event' = [kind |-> "host"]
    /\ UNCHANGED <<analysis, isLoading, mounted, canvas, animatedAtoms, animationFrameId,
                   frameRequests, animateDue, lastInput, atRest, reentry, frames>>

\* handleAtomDrop.
HandleAtomDrop(limit) ==
    \E at \in DropPoints : PlaceAtom(DroppedElement, at[1], at[2], limit)

\* The Sidebar's onAtomClick.
OnAtomClick(limit) == PlaceAtom(ClickedElement, 100 * PX, 100 * PX, limit)

\* setPlacedAtoms([]) of the clear button and of the reaction dialogs.
ClearAtoms ==
    /\ mounted
    /\ EffectsFlushed
    /\ placedAtoms' = << >>
    /\ reconcileDue' = TRUE
    /\ event' = [kind |-> "host"]
    /\ UNCHANGED <<analysis, now, isLoading, mounted, canvas, animatedAtoms, animationFrameId,
                   frameRequests, animateDue, lastInput, atRest, reentry, frames>>

\* handleAnalyzeAtoms up to its first await: setIsLoading(true), and
\* callApiWithRetry up to its first await of apiCall().
AnalyzeStart ==
    /\ mounted
    /\ EffectsFlushed
    /\ ~isLoading
    /\ Len(placedAtoms) >= 2
    /\ isLoading' = TRUE
    /\ animateDue' = TRUE
    /\ reentry' = FALSE
    /\ analysis' = FirstCall
    /\ event' = [kind |-> "host"]
    /\ UNCHANGED <<now, placedAtoms, mounted, canvas, animatedAtoms, animationFrameId,
                   frameRequests, reconcileDue, lastInput, atRest, frames>>

\* The finally block of handleAnalyzeAtoms: setIsLoading(false).  The steps
\* between the first await and the finally block are those of SpecAnalyze;
\* this action stands for all of them and keeps no history of them.
AnalyzeSettle ==
    /\ mounted
    /\ EffectsFlushed
    /\ isLoading
    /\ isLoading' = FALSE
    /\ animateDue' = TRUE
    /\ reentry' = TRUE
    /\ analysis' = NoAnalysis
    /\ event' = [kind |-> "host"]
    /\ UNCHANGED <<now, placedAtoms, mounted, canvas, animatedAtoms, animationFrameId,
                   frameRequests, reconcileDue, lastInput, atRest, frames>>

\* ------------------------------------------------------------ the hook

\* useEffect(..., [initialAtoms]): setAnimatedAtoms with the reconcile updater,
\* each new particle with its own two draws of Math.random().
ReconcileEffect ==
    /\ mounted
    /\ reconcileDue
    /\ \E draws \in [NewIndices(animatedAtoms, placedAtoms) -> RandomDraws] :
          animatedAtoms' = ReconcileAtoms(animatedAtoms, placedAtoms, draws)
    /\ reconcileDue' = FALSE
    /\ lastInput' = placedAtoms
    /\ atRest' = (atRest /\ NewIndices(animatedAtoms, placedAtoms) = {})
    /\ event' = [kind |-> "reconcile", prevAtoms |-> animatedAtoms,
                 prevInput |-> lastInput]
    /\ UNCHANGED <<analysis, now, placedAtoms, isLoading, mounted, canvas, animationFrameId,
                   frameRequests, animateDue, reentry, frames>>

\* The ids of the pending requests.
PendingIds == {r.id : r \in frameRequests}

\* requestAnimationFrame's return value: an id no pending request has and the
\* ref does not hold.  The browser never reuses an id; only the equality of
\* ids is observed, so the least free one stands for the next one.
NewFrameId ==
    CHOOSE n \in 1..(Cardinality(frameRequests) + 2) :
        /\ n \notin PendingIds \cup {animationFrameId}
        /\ \A m \in 1..(n - 1) : m \in PendingIds \cup {animationFrameId}

\* cancelAnimationFrame(id) on the set of pending requests.
CancelFrame(requests, id) == {r \in requests : r.id # id}

\* Cleanup without the call of cancelAnimationFrame.
CleanupWithoutCancel(requests) == requests

\* The cleanup of the animation effect: if (animationFrameId.current)
\* cancelAnimationFrame(animationFrameId.current).
Cleanup(requests) ==
    IF animationFrameId # 0 THEN CancelFrame(requests, animationFrameId)
                            ELSE requests

\* useEffect(..., [isPaused, canvasRef]) running again: the cleanup of its
\* previous run (none the first time, when the ref is null), then
\* requestAnimationFrame(animate) with animate closed over the isPaused of
\* this render.  The effects of one render run in the order of their
\* declaration, the reconcile effect first.
AnimateEffect ==
    /\ mounted
    /\ animateDue
    /\ ~reconcileDue
    /\ frameRequests' = Cleanup(frameRequests)
                          \cup {[id |-> NewFrameId, isPaused |-> isLoading]}
    /\ animationFrameId' = NewFrameId
    /\ animateDue' = FALSE
    /\ event' = [kind |-> "effect"]
    /\ UNCHANGED <<analysis, now, placedAtoms, isLoading, mounted, canvas, animatedAtoms,
                   reconcileDue, lastInput, atRest, reentry, frames>>

\* The branch animate takes: "skip" without a canvas element, else the branch
\* of the isPaused it was closed over.
FrameMode(request) ==
    IF ~canvas.mounted THEN "skip"
    ELSE IF request.isPaused THEN "converge" ELSE "free"

\* What the updater passed to setAnimatedAtoms does: [atoms, log], the list it
\* returns and the log of its loops (empty for the converging branch, which
\* has none).  canvasWidth and canvasHeight are those of
\* getBoundingClientRect() at this frame.
Updater(request, prevAtoms) ==
    IF request.isPaused
    THEN [atoms |-> ConvergeStep(prevAtoms, canvas.width, canvas.height),
          log   |-> << >>]
    ELSE FreeRun(prevAtoms, canvas.width, canvas.height)

\* setAnimatedAtoms(updater) of a frame that ran the branch mode, step being
\* what the updater did, and what the frame leaves for the claims to read.
SetAnimatedAtoms(mode, step) ==
    /\ animatedAtoms' = step.atoms
    /\ atRest' = CASE mode = "skip"     -> atRest
                   [] mode = "converge" -> TRUE
                   [] mode = "free"     -> FALSE
    /\ reentry' = (reentry /\ mode # "free")
    /\ event' = [kind      |-> "frame",
                 mode      |-> mode,
                 wasAtRest |-> atRest,
                 reentry   |-> reentry,
                 prevAtoms |-> animatedAtoms,
                 log       |-> step.log]

\* The browser runs one pending request: animate(), which without a canvas
\* element only requests the next frame, and otherwise updates the particle
\* list and requests the next frame.  setAnimatedAtoms on an unmounted
\* component has no effect.
Animate(request) ==
    /\ request \in frameRequests
    /\ SetAnimatedAtoms(FrameMode(request),
                        IF FrameMode(request) = "skip" \/ ~mounted
                        THEN [atoms |-> animatedAtoms, log |-> << >>]
                        ELSE Updater(request, animatedAtoms))
    /\ frameRequests' = (frameRequests \ {request})
                          \cup {[id |-> NewFrameId, isPaused |-> request.isPaused]}
    /\ animationFrameId' = NewFrameId
    /\ UNCHANGED <<analysis, now, placedAtoms, isLoading, mounted, canvas, reconcileDue,
                   animateDue, lastInput>>

\* A display refresh: some pending request runs.
Frame ==
    /\ frames < MaxFrames
    /\ frames' = frames + 1
    /\ \E request \in frameRequests : Animate(request)

\* The browser lays the canvas element out.
LayoutCanvas ==
    /\ mounted
    /\ canvas = UnsizedCanvas
    /\ canvas' = SizedCanvas
    /\ event' = [kind |-> "host"]
    /\ UNCHANGED <<analysis, now, placedAtoms, isLoading, mounted, animatedAtoms,
                   animationFrameId, frameRequests, reconcileDue, animateDue,
                   lastInput, atRest, reentry, frames>>

\* ReactionCanvas leaves the tree (simulationMode is no longer 'atoms'):
\* React detaches the ref, discards the hook's state and drops the effects
\* still pending.  The cleanup of the animation effect is passive: it runs
\* later, and a frame requested before may run first.
Unmount ==
    /\ mounted
    /\ mounted' = FALSE
    /\ reconcileDue' = FALSE
    /\ animateDue' = FALSE
    /\ canvas' = NoCanvas
    /\ animatedAtoms' = << >>
    /\ lastInput' = << >>
    /\ atRest' = FALSE
    /\ reentry' = FALSE
    /\ event' = [kind |-> "unmount"]
    /\ UNCHANGED <<analysis, now, placedAtoms, isLoading, animationFrameId, frameRequests,
                   frames>>

\* The cleanup of the animation effect running after the unmount.
UnmountCleanup ==
    /\ ~mounted
    /\ frameRequests # {}
    /\ frameRequests' = Cleanup(frameRequests)
    /\ event' = [kind |-> "cleanup"]
    /\ UNCHANGED <<analysis, now, placedAtoms, isLoading, mounted, canvas, animatedAtoms,
                   animationFrameId, reconcileDue, animateDue, lastInput,
                   atRest, reentry, frames>>

Next ==
    \/ HandleAtomDrop(MaxAtoms)
    \/ OnAtomClick(MaxAtoms)
    \/ ClearAtoms
    \/ AnalyzeStart
    \/ AnalyzeSettle
    \/ ReconcileEffect
    \/ AnimateEffect
    \/ Frame
    \/ LayoutCanvas
    \/ Unmount
    \/ UnmountCleanup

Spec == Init /\ [][Next]_vars

\* ------------------------------------------------------------ two overlapping particles

\* The scenario surface: 400 by 300 pixels.
PairCanvas == [mounted |-> TRUE, width |-> 400 * PX, height |-> 300 * PX]

\* How far right of the first atom, dropped at (50, 50), the second is
\* dropped: 10 and 39 pixels, both less than the sum of the radii.
PairGaps == { 10 * PX, 39 * PX }

\* The values of Math.random() drawn for the two new particles, in
\* hundredths: they give the velocity components -2, -1, 0, 1 and 1.96.
PairDraws == { 0, 25, 50, 75, 99 }

\* The two atoms of the scenario, radius 20, the second gap to the right.
PairAtoms(gap) ==
    << [instanceId |-> 1, id |-> DroppedElement.id, radius |-> DroppedElement.radius,
        x |-> 50 * PX, y |-> 50 * PX],
       [instanceId |-> 2, id |-> DroppedElement.id, radius |-> DroppedElement.radius,
        x |-> 50 * PX + gap, y |-> 50 * PX] >>

\* The hook once two overlapping atoms have been dropped on the laid-out
\* scenario surface, the reconcile effect has made their particles and the
\* animation effect has requested its frame: no effect is pending.
InitPair ==
    /\ now = 2
    /\ \E gap \in PairGaps : placedAtoms = PairAtoms(gap)
    /\ isLoading = FALSE
    /\ mounted = TRUE
    /\ canvas = PairCanvas
    /\ \E draws \in [1..2 -> PairDraws \X PairDraws] :
          animatedAtoms = ReconcileAtoms(<< >>, placedAtoms, draws)
    /\ animationFrameId = 1
    /\ frameRequests = {[id |-> 1, isPaused |-> FALSE]}
    /\ reconcileDue = FALSE
    /\ animateDue = FALSE
    /\ lastInput = placedAtoms
    /\ atRest = FALSE
    /\ reentry = FALSE
    /\ event = [kind |-> "reconcile", prevAtoms |-> << >>, prevInput |-> << >>]
    /\ frames = 0
    /\ analysis = NoAnalysis

\* Only frames follow.
NextPair == Frame

SpecPair == InitPair /\ [][NextPair]_vars

\* ------------------------------------------------------------ atoms dropped at the same time

\* The longest list of dropped atoms here: one more than MaxAtoms, so that an
\* atom can be dropped after two that share a reading of Date.now().
MaxTwins == MaxAtoms + 1

\* The hook on the laid-out canvas before any atom is placed: both effects of
\* the first render have run, the first frame is requested.
InitTwins ==
    /\ now = 1
    /\ placedAtoms = << >>
    /\ isLoading = FALSE
    /\ mounted = TRUE
    /\ canvas = SizedCanvas
    /\ animatedAtoms = << >>
    /\ animationFrameId = 1
    /\ frameRequests = {[id |-> 1, isPaused |-> FALSE]}
    /\ reconcileDue = FALSE
    /\ animateDue = FALSE
    /\ lastInput = << >>
    /\ atRest = FALSE
    /\ reentry = FALSE
    /\ event = [kind |-> "effect"]
    /\ frames = 0
    /\ analysis = NoAnalysis

\* Atoms are dropped, reconciled and stepped in free motion.
NextTwins ==
    \/ HandleAtomDrop(MaxTwins)
    \/ ReconcileEffect
    \/ Frame

SpecTwins == InitTwins /\ [][NextTwins]_vars

\* ------------------------------------------------------------ converging without end

\* The lists of placed atoms of length 2 .. MaxTwins, each atom dropped or
\* picked in the Sidebar, the k-th at time k.
ConvergingLists ==
    UNION { { [k \in 1..n |->
                 [instanceId |-> k, id |-> choice[k].id, radius |-> choice[k].radius,
                  x |-> choice[k].x, y |-> choice[k].y]] :
              choice \in [1..n -> { [id |-> DroppedElement.id,
                                     radius |-> DroppedElement.radius,
                                     x |-> 10 * PX, y |-> 50 * PX],
                                    [id |-> ClickedElement.id,
                                     radius |-> ClickedElement.radius,
                                     x |-> 100 * PX, y |-> 100 * PX] }] } :
            n \in 2..MaxTwins }

\* The hook on the laid-out canvas while an analysis is under way: the atoms
\* have been placed and reconciled, isLoading is true and the animation
\* effect of that render has requested a frame; no frame has run yet.
InitConverging ==
    /\ placedAtoms \in ConvergingLists
    /\ now = Len(placedAtoms)
    /\ isLoading = TRUE
    /\ mounted = TRUE
    /\ canvas = SizedCanvas
    /\ \E draws \in [1..Len(placedAtoms) -> RandomDraws] :
          animatedAtoms = ReconcileAtoms(<< >>, placedAtoms, draws)
    /\ animationFrameId = 1
    /\ frameRequests = {[id |-> 1, isPaused |-> TRUE]}
    /\ reconcileDue = FALSE
    /\ animateDue = FALSE
    /\ lastInput = placedAtoms
    /\ atRest = FALSE
    /\ reentry = FALSE
    /\ event = [kind |-> "effect"]
    /\ frames = 0
    /\ analysis = FirstCall

\* A display refresh, any number of times: the analysis does not settle, the
\* list and the canvas stay as they are.
NextConverging ==
    /\ \E request \in frameRequests : Animate(request)
    /\ UNCHANGED frames

\* The browser keeps refreshing the display: a requested frame runs.
SpecConverging ==
    InitConverging /\ [][NextConverging]_vars /\ WF_vars(NextConverging)

\* ------------------------------------------------------------ an id that comes back

\* The particle lists the hook can hold for one dropped atom placed at time 1
\* once a free-motion frame has stepped it on the laid-out canvas.
SteppedAtoms ==
    { FreeStep(ReconcileAtoms(<< >>,
                   << [instanceId |-> 1, id |-> DroppedElement.id,
                       radius |-> DroppedElement.radius,
                       x |-> at[1], y |-> at[2]] >>,
                   [k \in {1} |-> rnd]),
               SizedCanvas.width, SizedCanvas.height) :
        at \in DropPoints, rnd \in RandomDraws }

\* The hook right after the list of placed atoms was cleared: one atom had
\* been dropped at time 1 and reconciled, one frame had stepped its particle,
\* and the reconcile effect of the render with the empty list is due.
InitReturn ==
    /\ now = 1
    /\ placedAtoms = << >>
    /\ isLoading = FALSE
    /\ mounted = TRUE
    /\ canvas = SizedCanvas
    /\ animatedAtoms \in SteppedAtoms
    /\ animationFrameId = 2
    /\ frameRequests = {[id |-> 2, isPaused |-> FALSE]}
    /\ reconcileDue = TRUE
    /\ animateDue = FALSE
    /\ lastInput = << [instanceId |-> animatedAtoms[1].instanceId,
                       id |-> animatedAtoms[1].id,
                       radius |-> animatedAtoms[1].radius,
                       x |-> 10 * PX, y |-> 50 * PX] >>
    /\ atRest = FALSE
    /\ reentry = FALSE
    /\ event = [kind |-> "host"]
    /\ frames = 1
    /\ analysis = NoAnalysis

\* Atoms are placed again, at the same reading of Date.now() or a later one.
NextReturn ==
    \/ HandleAtomDrop(MaxAtoms)
    \/ OnAtomClick(MaxAtoms)
    \/ ReconcileEffect
    \/ Frame

SpecReturn == InitReturn /\ [][NextReturn]_vars

\* ------------------------------------------------------------ one particle drifting

\* The most frames that run on the drifting particle.
MaxDriftFrames == 6

\* The values of Math.random() drawn for the drifting particle, in
\* hundredths: they give the velocity components -0.48, -0.24, 0, 0.24, 0.48.
DriftDraws == { 38, 44, 50, 56, 62 }

\* The hook once one atom has been dropped in the middle of the laid-out
\* canvas, the reconcile effect has made its particle and the animation
\* effect has requested its frame.
InitDrift ==
    /\ now = 1
    /\ placedAtoms = << [instanceId |-> 1, id |-> DroppedElement.id,
                         radius |-> DroppedElement.radius,
                         x |-> SizedCanvas.width \div 2,
                         y |-> SizedCanvas.height \div 2] >>
    /\ isLoading = FALSE
    /\ mounted = TRUE
    /\ canvas = SizedCanvas
    /\ \E draws \in [{1} -> DriftDraws \X DriftDraws] :
          animatedAtoms = ReconcileAtoms(<< >>, placedAtoms, draws)
    /\ animationFrameId = 1
    /\ frameRequests = {[id |-> 1, isPaused |-> FALSE]}
    /\ reconcileDue = FALSE
    /\ animateDue = FALSE
    /\ lastInput = placedAtoms
    /\ atRest = FALSE
    /\ reentry = FALSE
    /\ event = [kind |-> "reconcile", prevAtoms |-> << >>, prevInput |-> << >>]
    /\ frames = 0
    /\ analysis = NoAnalysis

\* A display refresh, up to MaxDriftFrames times.
NextDrift ==
    /\ frames < MaxDriftFrames
    /\ frames' = frames + 1
    /\ \E request \in frameRequests : Animate(request)

SpecDrift == InitDrift /\ [][NextDrift]_vars

\* ------------------------------------------------------------ an analysis, step by step

\* The hook on the laid-out canvas once an atom has been dropped and one
\* picked in the Sidebar, both reconciled, the first frame requested and no
\* effect pending: the state in which the analysis can be started.
InitAnalyze ==
    /\ now = 2
    /\ placedAtoms =
          << [instanceId |-> 1, id |-> DroppedElement.id,
              radius |-> DroppedElement.radius, x |-> 10 * PX, y |-> 50 * PX],
             [instanceId |-> 2, id |-> ClickedElement.id,
              radius |-> ClickedElement.radius, x |-> 100 * PX, y |-> 100 * PX] >>
    /\ isLoading = FALSE
    /\ mounted = TRUE
    /\ canvas = SizedCanvas
    /\ \E draws \in [1..2 -> RandomDraws] :
          animatedAtoms = ReconcileAtoms(<< >>, placedAtoms, draws)
    /\ animationFrameId = 1
    /\ frameRequests = {[id |-> 1, isPaused |-> FALSE]}
    /\ reconcileDue = FALSE
    /\ animateDue = FALSE
    /\ lastInput = placedAtoms
    /\ atRest = FALSE
    /\ reentry = FALSE
    /\ event = [kind |-> "effect"]
    /\ frames = 0
    /\ analysis = NoAnalysis

\* handleAnalyzeAtoms from the end of callApiWithRetry on path "returned" or
\* "threw" to its own end: the try block's use of the response or the catch
\* block, then the finally block.  Both continuations run as microtasks,
\* with no frame or event between them.
HandlerEnds(path, ended, result, outcome) ==
    /\ EffectsFlushed
    /\ isLoading' = IsLoadingAfter(path)
    /\ animateDue' = TRUE
    /\ reentry' = TRUE
    /\ analysis' = [ended EXCEPT !.pc = "idle", !.result = result,
                                 !.outcome = outcome]

\* The catch block of callApiWithRetry has counted the attempt that was
\* rejected with the error.
Counted(error) ==
    [analysis EXCEPT !.attempt = analysis.attempt + 1,
                     !.errors = Append(analysis.errors, error)]

\* apiCall() is resolved: callApiWithRetry returns the response (return await
\* apiCall()) and handleAnalyzeAtoms runs to its end with it.
ApiCallResolves ==
    /\ analysis.pc = "call"
    /\ \E response \in Responses :
          HandlerEnds("returned", analysis,
                      [kind |-> "returned", value |-> response],
                      HandleResponse(response))
    /\ event' = [kind |-> "host"]
    /\ UNCHANGED <<now, placedAtoms, mounted, canvas, animatedAtoms, animationFrameId,
                   frameRequests, reconcileDue, lastInput, atRest, frames>>

\* apiCall() is rejected: the catch block of callApiWithRetry counts the
\* attempt, and either starts the timer of the retry or rethrows the error,
\* with which handleAnalyzeAtoms runs to its end through its catch block.
ApiCallRejects ==
    /\ analysis.pc = "call"
    /\ \E error \in ErrorSamples :
          IF AfterRejection(analysis.attempt + 1, error) = "delay"
          THEN /\ analysis' = [Counted(error) EXCEPT !.pc = "delay"]
               /\ UNCHANGED <<isLoading, animateDue, reentry>>
          ELSE HandlerEnds("threw", Counted(error),
                           [kind |-> "threw", error |-> error], "error")
    /\ event' = [kind |-> "host"]
    /\ UNCHANGED <<now, placedAtoms, mounted, canvas, animatedAtoms, animationFrameId,
                   frameRequests, reconcileDue, lastInput, atRest, frames>>

\* The timer of the retry fires: the loop tests attempt < MAX_RETRIES and
\* calls apiCall() again; past the loop callApiWithRetry throws an error of
\* its own, with which handleAnalyzeAtoms runs to its end.
RetryTimer ==
    /\ analysis.pc = "delay"
    /\ IF analysis.attempt < MAX_RETRIES
       THEN /\ analysis' = [analysis EXCEPT !.pc = "call",
                                            !.calls = analysis.calls + 1]
            /\ UNCHANGED <<isLoading, animateDue, reentry>>
       ELSE HandlerEnds("threw", analysis,
                        [kind |-> "threw", error |-> FailedAfterRetries], "error")
    /\ event' = [kind |-> "host"]
    /\ UNCHANGED <<now, placedAtoms, mounted, canvas, animatedAtoms, animationFrameId,
                   frameRequests, reconcileDue, lastInput, atRest, frames>>

\* The analysis is started, its call is settled or retried, and meanwhile the
\* animation effect and the frames run.
NextAnalyze ==
    \/ AnalyzeStart
    \/ ApiCallResolves
    \/ ApiCallRejects
    \/ RetryTimer
    \/ AnimateEffect
    \/ Frame

\* Every call of the API settles, the browser fires the timer of a retry,
\* and React runs the effects of a render.
SpecAnalyze ==
    /\ InitAnalyze
    /\ [][NextAnalyze]_vars
    /\ WF_vars(ApiCallResolves \/ ApiCallRejects)
    /\ WF_vars(RetryTimer)
    /\ WF_vars(AnimateEffect)

\* ------------------------------------------------------------ vocabulary of the claims

\* The instance ids of a list of atoms or particles, in order.
IdsOf(atoms) == [k \in 1..Len(atoms) |-> atoms[k].instanceId]

\* No instance id occurs twice in the list.
DistinctIds(atoms) ==
    \A i, j \in 1..Len(atoms) : i # j => atoms[i].instanceId # atoms[j].instanceId

\* Every particle of the list has velocity (0, 0).
AllStill(atoms) == \A k \in 1..Len(atoms) : atoms[k].vx = 0 /\ atoms[k].vy = 0

\* The latest transition was a frame that ran the given branch of animate.
FrameRan(mode) == event.kind = "frame" /\ event.mode = mode

\* radius <= x <= width - radius and radius <= y <= height - radius.
Contained(atom, width, height) ==
    /\ atom.radius <= atom.x /\ atom.x <= width - atom.radius
    /\ atom.radius <= atom.y /\ atom.y <= height - atom.radius

\* The square of the distance between the centres of two particles.
DistanceSquared(atomA, atomB) ==
    (atomB.x - atomA.x) * (atomB.x - atomA.x)
        + (atomB.y - atomA.y) * (atomB.y - atomA.y)

\* The square of the magnitude of the velocity of atomB relative to atomA.
RelativeSpeedSquared(atomA, atomB) ==
    (atomB.vx - atomA.vx) * (atomB.vx - atomA.vx)
        + (atomB.vy - atomA.vy) * (atomB.vy - atomA.vy)

\* The latest transition was a free-mode frame on exactly two particles whose
\* centres were closer than the sum of their radii, and in which no particle
\* left its boundary stage on an edge of the surface.
OverlappingPairStepped ==
    /\ FrameRan("free")
    /\ Len(event.prevAtoms) = 2
    /\ Overlapping(event.prevAtoms[1], event.prevAtoms[2])
    /\ \A n \in 1..Len(event.log) :
          event.log[n].op = "boundary" =>
              LET a == event.log[n].a
              IN  /\ a.radius < a.x /\ a.x < canvas.width - a.radius
                  /\ a.radius < a.y /\ a.y < canvas.height - a.radius

\* Particle p (1-based) as the stage of the n-th log entry of the latest frame
\* found it: as the latest earlier stage that touched it left it, or as the
\* frame found it.
AsFound(n, p) ==
    LET earlier == {m \in 1..(n - 1) : event.log[m].i = p \/ event.log[m].j = p}
    IN  IF earlier = {} THEN event.prevAtoms[p]
        ELSE LET last == CHOOSE m \in earlier : \A o \in earlier : o <= m
             IN  IF event.log[last].i = p THEN event.log[last].a
                                          ELSE event.log[last].b

\* ------------------------------------------------------------ C1

\* C1: whenever the ids of the latest reconcile input are pairwise distinct,
\* the particle list holds exactly the ids of that input, each once and in
\* the input's order, whatever frames have run since.
C1_StoreMatchesInput ==
    DistinctIds(lastInput) =>
        /\ IdsOf(animatedAtoms) = IdsOf(lastInput)
        /\ DistinctIds(animatedAtoms)

\* C1 witness: after a frame has stepped the list, a reconcile run has added
\* a second id to a list that tracked one.
C1_Witness ==
    /\ event.kind = "reconcile"
    /\ frames > 0
    /\ Len(event.prevAtoms) = 1
    /\ Len(animatedAtoms) = 2
    /\ DistinctIds(lastInput)

\* ------------------------------------------------------------ C2

\* C2 as claimed: every particle the list held before a reconcile run, and
\* whose id is in the run's input, is in the list after it with the same id,
\* position and velocity.
C2_ReconcileKeepsTracked ==
    event.kind = "reconcile" =>
        \A k \in 1..Len(event.prevAtoms) :
            (\E i \in 1..Len(lastInput) :
                lastInput[i].instanceId = event.prevAtoms[k].instanceId)
            => \E m \in 1..Len(animatedAtoms) :
                  animatedAtoms[m] = event.prevAtoms[k]

\* ------------------------------------------------------------ C3

\* C3 as claimed: after a free-mode frame on the laid-out canvas every
\* particle is contained in the surface.
C3_ContainedAfterStep ==
    (FrameRan("free") /\ canvas = SizedCanvas) =>
        \A k \in 1..Len(animatedAtoms) :
            Contained(animatedAtoms[k], canvas.width, canvas.height)

\* C3 amended: in a free-mode frame every particle whose diameter fits the
\* surface is contained in it right after its own boundary stage.
C3_ContainedAfterBoundary ==
    FrameRan("free") =>
        \A n \in 1..Len(event.log) :
            (/\ event.log[n].op = "boundary"
             /\ 2 * event.log[n].a.radius <= canvas.width
             /\ 2 * event.log[n].a.radius <= canvas.height)
            => Contained(event.log[n].a, canvas.width, canvas.height)

\* C3 witness: a free-mode frame on the laid-out canvas clamped the first
\* particle, which had its near edge left of the surface, and the step's
\* integration then carried it out of the surface again.
C3_Witness ==
    /\ FrameRan("free")
    /\ canvas = SizedCanvas
    /\ Len(event.prevAtoms) >= 1
    /\ event.prevAtoms[1].x - event.prevAtoms[1].radius < 0
    /\ event.log[1].a.x = event.log[1].a.radius
    /\ animatedAtoms[1].x < animatedAtoms[1].radius

\* ------------------------------------------------------------ C4

\* C4 as claimed: a free-mode frame on two overlapping particles away from
\* the edges leaves their centres strictly farther apart than it found them.
C4_DistanceGrows ==
    OverlappingPairStepped =>
        DistanceSquared(animatedAtoms[1], animatedAtoms[2])
            > DistanceSquared(event.prevAtoms[1], event.prevAtoms[2])

\* C4 amended: it does so whenever the speed of one particle relative to the
\* other was at most 2 * PUSH_FORCE before the frame.
C4_DistanceGrowsWhenSlow ==
    (/\ OverlappingPairStepped
     /\ RelativeSpeedSquared(event.prevAtoms[1], event.prevAtoms[2])
            <= (2 * PUSH_FORCE) * (2 * PUSH_FORCE))
    => DistanceSquared(animatedAtoms[1], animatedAtoms[2])
            > DistanceSquared(event.prevAtoms[1], event.prevAtoms[2])

\* C4 witness: such a frame ran on two overlapping particles that approached
\* each other at 1 pixel per frame.
C4_Witness ==
    /\ OverlappingPairStepped
    /\ event.prevAtoms[2].vx - event.prevAtoms[1].vx = -(2 * PUSH_FORCE)
    /\ event.prevAtoms[2].vy = event.prevAtoms[1].vy
    /\ DistanceSquared(animatedAtoms[1], animatedAtoms[2])
            > DistanceSquared(event.prevAtoms[1], event.prevAtoms[2])

\* ------------------------------------------------------------ C5

\* The latest transition was a free-mode frame on the scenario: a 400 by 300
\* surface, two particles of radius 20 at (50, 50) and (60, 50).
ScenarioStepped ==
    /\ OverlappingPairStepped
    /\ canvas = PairCanvas
    /\ \A k \in 1..2 : /\ event.prevAtoms[k].radius = 20 * PX
                       /\ event.prevAtoms[k].y = 50 * PX
    /\ event.prevAtoms[1].x = 50 * PX
    /\ event.prevAtoms[2].x = 60 * PX

\* The velocities after the frame are those before it changed by the impulse
\* along the x axis and then decayed.
ScenarioImpulse ==
    /\ animatedAtoms[1].vx = Scale(event.prevAtoms[1].vx - PUSH_FORCE, VELOCITY_DECAY)
    /\ animatedAtoms[2].vx = Scale(event.prevAtoms[2].vx + PUSH_FORCE, VELOCITY_DECAY)
    /\ \A k \in 1..2 :
          animatedAtoms[k].vy = Scale(event.prevAtoms[k].vy, VELOCITY_DECAY)

\* C5 as claimed: the frame of the scenario leaves the centres at least 40
\* pixels apart and the velocities changed by the impulse.
C5_ScenarioSeparates ==
    ScenarioStepped =>
        /\ DistanceSquared(animatedAtoms[1], animatedAtoms[2])
              >= (40 * PX) * (40 * PX)
        /\ ScenarioImpulse

\* C5 amended: the frame of the scenario changes the velocities by the
\* impulse and leaves the centres at least 37 pixels apart, and at least 40
\* if the second particle's vx was no less than the first's minus 1.
C5_ScenarioSeparatesWhenSlow ==
    ScenarioStepped =>
        /\ ScenarioImpulse
        /\ DistanceSquared(animatedAtoms[1], animatedAtoms[2])
              >= (37 * PX) * (37 * PX)
        /\ (event.prevAtoms[2].vx - event.prevAtoms[1].vx >= -(2 * PUSH_FORCE))
              => DistanceSquared(animatedAtoms[1], animatedAtoms[2])
                    >= (40 * PX) * (40 * PX)

\* C5 witness: the frame of the scenario ran on particles approaching each
\* other along x at more than 1 pixel per frame and left their centres less
\* than 40 pixels apart.
C5_Witness ==
    /\ ScenarioStepped
    /\ event.prevAtoms[2].vx - event.prevAtoms[1].vx < -(2 * PUSH_FORCE)
    /\ DistanceSquared(animatedAtoms[1], animatedAtoms[2])
          < (40 * PX) * (40 * PX)

\* ------------------------------------------------------------ C6

\* How close to its target a particle counts as having reached it, in units
\* of 1/PX pixel: above the grain at which the pull of 0.08 rounds to nothing.
Tolerance == 10

\* (W/2 + 40 * cos(2 * pi * k / N), H/2 + 40 * sin(2 * pi * k / N)) for the
\* particle at 0-based index k of N on the canvas.
TargetPoint(k, n) ==
    << RoundDiv(canvas.width, 2)
          + RoundDiv(UnitCircle(n)[k + 1][1] * CLUSTER_RADIUS * PX, TRIG),
       RoundDiv(canvas.height, 2)
          + RoundDiv(UnitCircle(n)[k + 1][2] * CLUSTER_RADIUS * PX, TRIG) >>

\* Every particle of the list is within Tolerance of its target on both axes.
Converged(atoms) ==
    \A k \in 1..Len(atoms) :
        /\ Abs(atoms[k].x - TargetPoint(k - 1, Len(atoms))[1]) <= Tolerance
        /\ Abs(atoms[k].y - TargetPoint(k - 1, Len(atoms))[2]) <= Tolerance

C7_ConvergingPinsVelocity == FrameRan("converge") => AllStill(animatedAtoms)

\* C7 witness: a converging-mode frame ran on a list in which some particle
\* was moving.
C7_Witness ==
    /\ FrameRan("converge")
    /\ Len(event.prevAtoms) >= 2
    /\ ~AllStill(event.prevAtoms)

\* ------------------------------------------------------------ C8

\* C8 as claimed: the first free-mode frame after isLoading went back to
\* false starts with every particle at velocity (0, 0).
C8_ReentryFromRest ==
    (FrameRan("free") /\ event.reentry) => AllStill(event.prevAtoms)

\* C8 amended: that frame starts with every particle at velocity (0, 0) if a
\* converging-mode frame has run and no reconcile run has made a particle
\* since the last one.
C8_ReentryFromRestAfterConverging ==
    (FrameRan("free") /\ event.reentry /\ event.wasAtRest)
        => AllStill(event.prevAtoms)

\* C8 witness: such a first free-mode frame ran on two particles that a
\* converging-mode frame had brought to rest.
C8_Witness ==
    /\ FrameRan("free")
    /\ event.reentry
    /\ event.wasAtRest
    /\ Len(event.prevAtoms) >= 2

\* ------------------------------------------------------------ C9

\* C9 as claimed, for the change back to free motion: a frame that steps the
\* particles while isLoading is false runs the free-mode branch.
C9_StepUsesCurrentFlag ==
    (event.kind = "frame" /\ event.mode # "skip" /\ ~isLoading)
        => event.mode = "free"

\* ------------------------------------------------------------ C10

\* C10 as claimed: a frame that finds no canvas element, or one not yet laid
\* out, leaves the particle list as it was and has the next frame requested.
C10_UnavailableSurfaceSkips ==
    (event.kind = "frame" /\ canvas \in {NoCanvas, UnsizedCanvas})
        => /\ animatedAtoms = event.prevAtoms
           /\ animationFrameId \in PendingIds

\* ------------------------------------------------------------ C11

\* C11: once ReactionCanvas is unmounted, every request still pending is the
\* one the cleanup cancels, no request is pending once the cleanup has run
\* and none is made afterwards, and no frame changes the particle list.
C11_TeardownCancels ==
    /\ [](~mounted => PendingIds \subseteq {animationFrameId})
    /\ [](event.kind = "cleanup" => frameRequests = {})
    /\ [][~mounted => /\ animatedAtoms' = animatedAtoms
                      /\ (frameRequests = {} => frameRequests' = {})]_vars

\* C11 witness: the cleanup has run at an unmount that came while the
\* analysis was under way, after the change of isLoading had restarted the
\* loop and a frame had run.
C11_Witness ==
    /\ event.kind = "cleanup"
    /\ isLoading
    /\ frames > 0
    /\ animationFrameId > 1
    /\ frameRequests = {}

\* ------------------------------------------------------------ C12

\* C12 as claimed: a frame that steps the particle list finds it reconciled
\* with the current list of placed atoms.
C12_ReconciledBeforeStep ==
    (event.kind = "frame" /\ event.mode # "skip") => lastInput = placedAtoms

\* ------------------------------------------------------------ C13

\* The velocity components reconcile can give a new particle.
FreshVelocities ==
    {RandomVelocity(rnd[1]) : rnd \in RandomDraws}
        \cup {RandomVelocity(rnd[2]) : rnd \in RandomDraws}

\* C13: after a reconcile run, the particle of every id that was not in the
\* list of the previous run (a new id, or one that had left the list and is
\* back) has the position of its entry in the list and a velocity reconcile
\* has drawn for it.
C13_ReturningIdStartsFresh ==
    event.kind = "reconcile" =>
        \A k \in 1..Len(lastInput) :
            (\A i \in 1..Len(event.prevInput) :
                event.prevInput[i].instanceId # lastInput[k].instanceId)
            => /\ Len(animatedAtoms) = Len(lastInput)
               /\ animatedAtoms[k].instanceId = lastInput[k].instanceId
               /\ animatedAtoms[k].x = lastInput[k].x
               /\ animatedAtoms[k].y = lastInput[k].y
               /\ animatedAtoms[k].vx \in FreshVelocities
               /\ animatedAtoms[k].vy \in FreshVelocities

\* C13 witness: the id of the stepped particle, removed with the cleared
\* list, is back in the list at another place, and reconcile has made its
\* particle there.
C13_Witness ==
    /\ event.kind = "reconcile"
    /\ event.prevInput = << >>
    /\ Len(lastInput) = 1
    /\ lastInput[1].instanceId = 1
    /\ lastInput[1].x = 100 * PX
    /\ animatedAtoms[1].x = 100 * PX
    /\ frames >= 1

\* ------------------------------------------------------------ C14

\* C14 as claimed: the atoms on the canvas have pairwise different instance
\* ids.
C14_InstanceIdsDiffer == DistinctIds(placedAtoms)

\* ------------------------------------------------------------ C15

\* C15 as claimed: every particle a reconcile run has made has velocity
\* components within [-2, 2] and is not at rest.
C15_NewParticleMoves ==
    event.kind = "reconcile" =>
        \A k \in 1..Len(animatedAtoms) :
            FindIndex(event.prevAtoms, animatedAtoms[k].instanceId) = 0
            => /\ Abs(animatedAtoms[k].vx) <= 2 * PX
               /\ Abs(animatedAtoms[k].vy) <= 2 * PX
               /\ ~(animatedAtoms[k].vx = 0 /\ animatedAtoms[k].vy = 0)

\* ------------------------------------------------------------ C16

\* The latest transition was a free-mode frame on a single particle that left
\* its boundary stage on no edge of the surface.
LoneParticleStepped ==
    /\ FrameRan("free")
    /\ Len(event.prevAtoms) = 1
    /\ \A n \in 1..Len(event.log) :
          event.log[n].op = "boundary" =>
              LET a == event.log[n].a
              IN  /\ a.radius < a.x /\ a.x < canvas.width - a.radius
                  /\ a.radius < a.y /\ a.y < canvas.height - a.radius

\* The square of the speed of a particle.
SpeedSquared(atom) == atom.vx * atom.vx + atom.vy * atom.vy

\* A velocity component after one undisturbed free-mode frame, given the one
\* before: the product with 0.98 rounded, of the same sign, not larger, zero
\* only if it was zero, and smaller wherever the 2 % exceed half a unit.
Decayed(before, after) ==
    /\ after = Scale(before, VELOCITY_DECAY)
    /\ Abs(after) <= Abs(before)
    /\ before > 0 => after > 0
    /\ before < 0 => after < 0
    /\ (2 * Abs(before) * (HUNDRED - VELOCITY_DECAY) > HUNDRED)
          => Abs(after) < Abs(before)

C17_RadiusIsKept ==
    [][\A k \in 1..Len(animatedAtoms') : \A m \in 1..Len(animatedAtoms) :
          animatedAtoms'[k].instanceId = animatedAtoms[m].instanceId
          => animatedAtoms'[k].radius = animatedAtoms[m].radius]_vars

\* C17 witness: after a frame has stepped the list, a reconcile run has kept
\* a particle whose entry in the input carries another radius.
C17_Witness ==
    /\ event.kind = "reconcile"
    /\ frames > 0
    /\ \E k \in 1..Len(animatedAtoms) :
          /\ FindIndex(event.prevAtoms, animatedAtoms[k].instanceId) # 0
          /\ lastInput[k].instanceId = animatedAtoms[k].instanceId
          /\ lastInput[k].radius # animatedAtoms[k].radius

\* ------------------------------------------------------------ C18

\* The n-th log entry of the latest frame is the test of a pair whose centres
\* coincided.
SameCentreTested(n) ==
    /\ event.log[n].op = "pair"
    /\ AsFound(n, event.log[n].i).x = AsFound(n, event.log[n].j).x
    /\ AsFound(n, event.log[n].i).y = AsFound(n, event.log[n].j).y

\* C18: a pair test that finds the two centres at one point moves the first
\* particle by -(radiusA + radiusB) / 2 and the second by
\* +(radiusA + radiusB) / 2 along x, moves neither along y, and the frame
\* leaves every position and velocity a number.
C18_SameCentreSplitsAlongX ==
    FrameRan("free") =>
        /\ \A n \in 1..Len(event.log) :
              SameCentreTested(n) =>
                  LET A == AsFound(n, event.log[n].i)
                      B == AsFound(n, event.log[n].j)
                  IN  /\ event.log[n].hit
                      /\ 2 * (A.x - event.log[n].a.x) = A.radius + B.radius
                      /\ 2 * (event.log[n].b.x - B.x) = A.radius + B.radius
                      /\ event.log[n].a.y = A.y
                      /\ event.log[n].b.y = B.y
        /\ \A k \in 1..Len(animatedAtoms) :
              /\ animatedAtoms[k].x \in Int /\ animatedAtoms[k].y \in Int
              /\ animatedAtoms[k].vx \in Int /\ animatedAtoms[k].vy \in Int

\* C18 witness: a free-mode frame has tested two particles of different ids
\* whose centres coincided.
C18_Witness ==
    /\ FrameRan("free")
    /\ \E n \in 1..Len(event.log) :
          /\ SameCentreTested(n)
          /\ event.log[n].a.instanceId # event.log[n].b.instanceId

\* ------------------------------------------------------------ C19

\* C19: the list the hook returns has the length of the particle list and,
\* place by place, the particle's instance id, element and radius, with x
\* and y lowered by the radius.
C19_ReturnedAtomsAreTopLeft ==
    /\ Len(ReturnedAtoms(animatedAtoms)) = Len(animatedAtoms)
    /\ \A k \in 1..Len(animatedAtoms) :
          /\ ReturnedAtoms(animatedAtoms)[k].instanceId = animatedAtoms[k].instanceId
          /\ ReturnedAtoms(animatedAtoms)[k].id = animatedAtoms[k].id
          /\ ReturnedAtoms(animatedAtoms)[k].radius = animatedAtoms[k].radius
          /\ ReturnedAtoms(animatedAtoms)[k].x
                = animatedAtoms[k].x - animatedAtoms[k].radius
          /\ ReturnedAtoms(animatedAtoms)[k].y
                = animatedAtoms[k].y - animatedAtoms[k].radius

\* C19 witness: the particle list holds two particles of different radii
\* that a frame has stepped.
C19_Witness ==
    /\ event.kind = "frame"
    /\ event.mode # "skip"
    /\ Len(animatedAtoms) = 2
    /\ animatedAtoms[1].radius # animatedAtoms[2].radius
    /\ animatedAtoms[1].instanceId # animatedAtoms[2].instanceId

\* ------------------------------------------------------------ C20

\* The boundary rule of one axis as claimed, for a coordinate and its velocity
\* component before and after the boundary stage.
AxisResolved(before, after, velocityBefore, velocityAfter, radius, bound) ==
    IF before + radius > bound
    THEN /\ after = bound - radius
         /\ velocityAfter = Scale(velocityBefore, BOUNDARY_DAMPING)
    ELSE IF before - radius < 0
    THEN /\ after = radius
         /\ velocityAfter = Scale(velocityBefore, BOUNDARY_DAMPING)
    ELSE /\ after = before
         /\ velocityAfter = velocityBefore

\* C20 as claimed: the boundary stage of every particle of a free-mode frame
\* follows the boundary rule on the x axis and on the y axis.
C20_BoundaryRulePerAxis ==
    FrameRan("free") =>
        \A n \in 1..Len(event.log) :
            event.log[n].op = "boundary" =>
                LET found == AsFound(n, event.log[n].i)
                    left  == event.log[n].a
                IN  /\ AxisResolved(found.x, left.x, found.vx, left.vx,
                                    found.radius, canvas.width)
                    /\ AxisResolved(found.y, left.y, found.vy, left.vy,
                                    found.radius, canvas.height)

\* ------------------------------------------------------------ C21

\* The far-edge test of the x axis fires for the particle.
RightEdgeFires(atomA, canvasWidth) == atomA.x + atomA.radius > canvasWidth

\* The near-edge test of the x axis fires for the particle, the far-edge test
\* having run before it.
LeftEdgeFires(atomA, canvasWidth) ==
    RightEdge(atomA, canvasWidth).x - atomA.radius < 0

\* The far-edge test of the y axis fires for the particle.
BottomEdgeFires(atomA, canvasHeight) == atomA.y + atomA.radius > canvasHeight

\* The near-edge test of the y axis fires for the particle.
TopEdgeFires(atomA, canvasHeight) ==
    BottomEdge(atomA, canvasHeight).y - atomA.radius < 0

\* C21 as claimed: when a boundary test fires for a particle on an axis, the
\* particle leaves its boundary stage with the velocity component of that axis
\* pointing into the surface: not negative after the near edge, not positive
\* after the far edge alone.
C21_ClampTurnsVelocityInwards ==
    FrameRan("free") =>
        \A n \in 1..Len(event.log) :
            event.log[n].op = "boundary" =>
                LET found == AsFound(n, event.log[n].i)
                    left  == event.log[n].a
                IN  /\ LeftEdgeFires(found, canvas.width) => left.vx >= 0
                    /\ (RightEdgeFires(found, canvas.width)
                            /\ ~LeftEdgeFires(found, canvas.width)) => left.vx <= 0
                    /\ TopEdgeFires(found, canvas.height) => left.vy >= 0
                    /\ (BottomEdgeFires(found, canvas.height)
                            /\ ~TopEdgeFires(found, canvas.height)) => left.vy <= 0

\* ------------------------------------------------------------ C22

\* The n-th log entry of the latest frame is a pair test that found the pair
\* overlapping.
PairHit(n) == event.log[n].op = "pair" /\ event.log[n].hit

\* How far, in units of position, the centre distance a push leaves may lie
\* from the sum of the radii.
PushGrain == 5

\* C22 as claimed: every pair found overlapping in a free-mode frame leaves
\* its pair stage with a centre distance of exactly radiusA + radiusB.
C22_PushLeavesContact ==
    FrameRan("free") =>
        \A n \in 1..Len(event.log) :
            PairHit(n) =>
                LET minDistance == event.log[n].a.radius + event.log[n].b.radius
                IN  DistanceSquared(event.log[n].a, event.log[n].b)
                        = minDistance * minDistance

\* C22 amended: every such pair leaves its pair stage with a centre distance
\* within PushGrain units of radiusA + radiusB.
C22_PushLeavesContactUpToRounding ==
    FrameRan("free") =>
        \A n \in 1..Len(event.log) :
            PairHit(n) =>
                LET minDistance == event.log[n].a.radius + event.log[n].b.radius
                    squared     == DistanceSquared(event.log[n].a, event.log[n].b)
                IN  /\ (minDistance - PushGrain) * (minDistance - PushGrain) <= squared
                    /\ squared <= (minDistance + PushGrain) * (minDistance + PushGrain)

\* C22 witness: a pair whose centres lay on no common horizontal or vertical
\* line was found overlapping and left its pair stage off the exact distance
\* but within the grain.
C22_Witness ==
    /\ FrameRan("free")
    /\ \E n \in 1..Len(event.log) :
          /\ PairHit(n)
          /\ AsFound(n, event.log[n].i).x # AsFound(n, event.log[n].j).x
          /\ AsFound(n, event.log[n].i).y # AsFound(n, event.log[n].j).y
          /\ DistanceSquared(event.log[n].a, event.log[n].b)
                # (event.log[n].a.radius + event.log[n].b.radius)
                    * (event.log[n].a.radius + event.log[n].b.radius)
          /\ C22_PushLeavesContactUpToRounding

\* ------------------------------------------------------------ C23

\* The positions in the log of the latest frame of the pair tests of (i, j).
PairTests(i, j) ==
    {n \in 1..Len(event.log) :
        event.log[n].op = "pair" /\ event.log[n].i = i /\ event.log[n].j = j}

\* C23: in a free-mode frame over N particles every pair test has a lower
\* index as A than as B, every pair i < j of 1..N is tested exactly once, and
\* the outcome of each test is that of distance < minDistance on the two
\* particles as the stages run earlier in the frame left them.
C23_EachPairTestedOnce ==
    FrameRan("free") =>
        /\ \A n \in 1..Len(event.log) :
              event.log[n].op = "pair" =>
                  /\ 1 <= event.log[n].i
                  /\ event.log[n].i < event.log[n].j
                  /\ event.log[n].j <= Len(event.prevAtoms)
                  /\ event.log[n].hit
                        = Overlapping(AsFound(n, event.log[n].i),
                                      AsFound(n, event.log[n].j))
        /\ \A i, j \in 1..Len(event.prevAtoms) :
              /\ i < j => Cardinality(PairTests(i, j)) = 1
              /\ i >= j => PairTests(i, j) = {}

\* C23 witness: a free-mode frame ran on three particles, and one of its pair
\* tests had another outcome than the two particles would have had as the
\* frame found them.
C23_Witness ==
    /\ FrameRan("free")
    /\ Len(event.prevAtoms) = 3
    /\ \E n \in 1..Len(event.log) :
          /\ event.log[n].op = "pair"
          /\ event.log[n].hit
                # Overlapping(event.prevAtoms[event.log[n].i],
                              event.prevAtoms[event.log[n].j])
    /\ C23_EachPairTestedOnce

\* ------------------------------------------------------------ C24

\* The positions in the log of the latest frame of the boundary stages of
\* particle p.
BoundaryStages(p) ==
    {n \in 1..Len(event.log) :
        event.log[n].op = "boundary" /\ event.log[n].i = p}

\* C24 as claimed: in a free-mode frame the boundary stage of a particle comes
\* before every pair stage that moves it.
C24_BoundaryBeforeCollision ==
    FrameRan("free") =>
        \A n \in 1..Len(event.log) :
            PairHit(n) =>
                /\ \E m \in BoundaryStages(event.log[n].i) : m < n
                /\ \E m \in BoundaryStages(event.log[n].j) : m < n

\* C24 amended: the boundary stage of a particle comes before every pair
\* stage that moves it as A (the lower index of the pair) and after every
\* pair stage that moves it as B (the higher index).
C24_BoundaryBeforeCollisionAsA ==
    FrameRan("free") =>
        \A n \in 1..Len(event.log) :
            PairHit(n) =>
                /\ BoundaryStages(event.log[n].i) # {}
                /\ BoundaryStages(event.log[n].j) # {}
                /\ \A m \in BoundaryStages(event.log[n].i) : m < n
                /\ \A m \in BoundaryStages(event.log[n].j) : m > n

\* C24 witness: a free-mode frame moved two particles apart in a pair stage
\* that lies between the boundary stage of its A and that of its B.
C24_Witness ==
    /\ FrameRan("free")
    /\ \E n \in 1..Len(event.log) :
          /\ PairHit(n)
          /\ event.log[n].a # AsFound(n, event.log[n].i)
          /\ event.log[n].b # AsFound(n, event.log[n].j)
          /\ \E m \in BoundaryStages(event.log[n].i) : m < n
          /\ \E m \in BoundaryStages(event.log[n].j) : m > n

\* ------------------------------------------------------------ C25

\* The positions in the log of the latest frame of the integrations of
\* particle p.
IntegrateStages(p) ==
    {n \in 1..Len(event.log) :
        event.log[n].op = "integrate" /\ event.log[n].i = p}

\* The positions in the log of the latest frame of the stages that touch
\* particle p.
StagesOf(p) ==
    {n \in 1..Len(event.log) : event.log[n].i = p \/ event.log[n].j = p}

\* C25: in a free-mode frame every particle has exactly one integration; it
\* adds the velocity to the position and then multiplies the velocity by 0.98
\* on both axes; it is the last stage of the frame that touches the particle,
\* a boundary stage of the particle lies before it, and the frame stores the
\* particle as the integration left it.
C25_IntegratedOnceAndLast ==
    FrameRan("free") =>
        \A p \in 1..Len(event.prevAtoms) :
            /\ Cardinality(IntegrateStages(p)) = 1
            /\ \A n \in IntegrateStages(p) :
                  LET found == AsFound(n, p)
                      left  == event.log[n].a
                  IN  /\ left.x = found.x + found.vx
                      /\ left.y = found.y + found.vy
                      /\ left.vx = Scale(found.vx, VELOCITY_DECAY)
                      /\ left.vy = Scale(found.vy, VELOCITY_DECAY)
                      /\ \A m \in StagesOf(p) : m <= n
                      /\ \E m \in BoundaryStages(p) : m < n
                      /\ animatedAtoms[p] = left

\* C25 witness: a free-mode frame on three particles moved the second one in
\* a pair stage as B and in a pair stage as A and then integrated it with a
\* velocity that is not zero.
C25_Witness ==
    /\ FrameRan("free")
    /\ Len(event.prevAtoms) = 3
    /\ \E m, n \in 1..Len(event.log) :
          /\ PairHit(m) /\ event.log[m].j = 2
          /\ PairHit(n) /\ event.log[n].i = 2
    /\ \E n \in IntegrateStages(2) :
          /\ event.log[n].a.x # AsFound(n, 2).x
          /\ animatedAtoms[2] = event.log[n].a

\* ------------------------------------------------------------ C26

\* What separates the k-th particle (1-based) of the list from its target on
\* the x axis and on the y axis.
OffsetToTarget(atoms, k) ==
    << TargetPoint(k - 1, Len(atoms))[1] - atoms[k].x,
       TargetPoint(k - 1, Len(atoms))[2] - atoms[k].y >>

\* A coordinate that was before away from its target is after away from it on
\* the same side or on it, and no farther.
NoOvershoot(before, after) ==
    /\ before >= 0 => (0 <= after /\ after <= before)
    /\ before <= 0 => (before <= after /\ after <= 0)

\* C26 as claimed: a converging-mode frame leaves every particle, on both
\* axes, at exactly 0.92 times its former offset to its target.
C26_OffsetShrinksExactly ==
    FrameRan("converge") =>
        \A k \in 1..Len(animatedAtoms) : \A axis \in 1..2 :
            /\ HUNDRED * OffsetToTarget(animatedAtoms, k)[axis]
                  = (HUNDRED - CONVERGE_PULL) * OffsetToTarget(event.prevAtoms, k)[axis]
            /\ NoOvershoot(OffsetToTarget(event.prevAtoms, k)[axis],
                           OffsetToTarget(animatedAtoms, k)[axis])

\* C26 amended: it leaves every particle, on both axes, within half a unit
\* of position of 0.92 times its former offset to its target, on the same
\* side of the target or on it, and no farther from it.
C26_OffsetShrinksUpToRounding ==
    FrameRan("converge") =>
        \A k \in 1..Len(animatedAtoms) : \A axis \in 1..2 :
            /\ 2 * Abs(HUNDRED * OffsetToTarget(animatedAtoms, k)[axis]
                         - (HUNDRED - CONVERGE_PULL)
                              * OffsetToTarget(event.prevAtoms, k)[axis])
                  <= HUNDRED
            /\ NoOvershoot(OffsetToTarget(event.prevAtoms, k)[axis],
                           OffsetToTarget(animatedAtoms, k)[axis])

\* C26 witness: a converging-mode frame moved a particle nearer to its target
\* on both axes without reaching it, and not by exactly 0.92 on the x axis.
C26_Witness ==
    /\ FrameRan("converge")
    /\ \E k \in 1..Len(animatedAtoms) :
          /\ \A axis \in 1..2 :
                /\ OffsetToTarget(animatedAtoms, k)[axis] # 0
                /\ Abs(OffsetToTarget(animatedAtoms, k)[axis])
                      < Abs(OffsetToTarget(event.prevAtoms, k)[axis])
          /\ HUNDRED * OffsetToTarget(animatedAtoms, k)[1]
                # (HUNDRED - CONVERGE_PULL) * OffsetToTarget(event.prevAtoms, k)[1]
    /\ C26_OffsetShrinksUpToRounding

\* ------------------------------------------------------------ C27

\* The index of the last atom of the list that has the instance id.
LastOccurrence(atoms, instanceId) ==
    CHOOSE k \in 1..Len(atoms) :
        /\ atoms[k].instanceId = instanceId
        /\ \A m \in (k + 1)..Len(atoms) : atoms[m].instanceId # instanceId

\* C27 as claimed: after a reconcile whose input holds an instance id more
\* than once, the particle list holds every id of the input once, with the
\* element and the radius of the last atom of the input that has the id.
C27_LastOccurrenceWins ==
    (event.kind = "reconcile" /\ ~DistinctIds(lastInput)) =>
        /\ DistinctIds(animatedAtoms)
        /\ \A k \in 1..Len(lastInput) :
              \E p \in 1..Len(animatedAtoms) :
                  animatedAtoms[p].instanceId = lastInput[k].instanceId
        /\ \A p \in 1..Len(animatedAtoms) :
              /\ \E k \in 1..Len(lastInput) :
                    lastInput[k].instanceId = animatedAtoms[p].instanceId
              /\ LET last == LastOccurrence(lastInput, animatedAtoms[p].instanceId)
                 IN  /\ animatedAtoms[p].id = lastInput[last].id
                     /\ animatedAtoms[p].radius = lastInput[last].radius

\* ------------------------------------------------------------ C28

\* C28: at most one frame request is pending, while the component is mounted
\* and between its unmount and the cleanup, and the pending request is the one
\* the ref holds; so a display refresh runs animate at most once.
C28_OneRequestPending ==
    /\ Cardinality(frameRequests) <= 1
    /\ PendingIds \subseteq {animationFrameId}

\* C28 witness: the mode flag changed after a frame had run, the animation
\* effect tore the loop down and restarted it, a frame of the new loop ran in
\* converging mode, and one request is pending.
C28_Witness ==
    /\ mounted
    /\ FrameRan("converge")
    /\ frames > 1
    /\ isLoading
    /\ Cardinality(frameRequests) = 1
    /\ PendingIds = {animationFrameId}

\* ------------------------------------------------------------ C29

\* The animation loop runs in free motion: isLoading is false, the animation
\* effect of that render has run, and no pending frame was requested by a
\* loop closed over isPaused = true.
RunsFree ==
    /\ ~isLoading
    /\ ~animateDue
    /\ \A request \in frameRequests : ~request.isPaused

\* C29: whenever no analysis is in flight isLoading is false, however the
\* last one ended; and whenever isLoading is true, the call having settled,
\* it becomes false again and the animation loop runs in free motion again.
C29_LoadingEnds ==
    /\ [](analysis.pc = "idle" => ~isLoading)
    /\ (isLoading ~> RunsFree)

\* C29 witness: an analysis whose call was rejected three times has ended,
\* frames ran in converging mode meanwhile, and the loop runs free again.
C29_Witness ==
    /\ analysis.pc = "idle"
    /\ analysis.result.kind = "threw"
    /\ analysis.calls = MAX_RETRIES
    /\ frames > 0
    /\ atRest
    /\ RunsFree

\* ------------------------------------------------------------ C30

\* Every error of the sequence is one isRetryableError takes for retryable.
AllRetryable(errors) ==
    \A k \in 1..Len(errors) : IsRetryableError(errors[k])

\* C30: callApiWithRetry calls the API at most MAX_RETRIES times; it calls
\* it again only after a rejection with a retryable error and fewer than
\* MAX_RETRIES calls; it returns the value of the first call that is resolved;
\* and it throws the error of the call rejected last, which is either not
\* retryable (after one call when it is the first) or that of call
\* MAX_RETRIES.
C30_RetriesAreBounded ==
    /\ analysis.calls <= MAX_RETRIES
    /\ analysis.attempt = Len(analysis.errors)
    /\ analysis.pc = "call" =>
          /\ analysis.calls = Len(analysis.errors) + 1
          /\ AllRetryable(analysis.errors)
    /\ analysis.pc = "delay" =>
          /\ analysis.calls = Len(analysis.errors)
          /\ analysis.calls < MAX_RETRIES
          /\ AllRetryable(analysis.errors)
    /\ analysis.result.kind = "returned" =>
          /\ analysis.calls = Len(analysis.errors) + 1
          /\ AllRetryable(analysis.errors)
    /\ analysis.result.kind = "threw" =>
          /\ analysis.calls = Len(analysis.errors)
          /\ analysis.result.error = analysis.errors[analysis.calls]
          /\ AllRetryable(SubSeq(analysis.errors, 1, analysis.calls - 1))
          /\ IsRetryableError(analysis.result.error) => analysis.calls = MAX_RETRIES
          /\ ~IsRetryableError(analysis.errors[1]) => analysis.calls = 1

\* C30 witness: callApiWithRetry has returned the value of its third call,
\* the two calls before it having been rejected with retryable errors of
\* different kinds.
C30_Witness ==
    /\ analysis.pc = "idle"
    /\ analysis.result.kind = "returned"
    /\ analysis.calls = MAX_RETRIES
    /\ Len(analysis.errors) = 2
    /\ analysis.errors[1] # analysis.errors[2]
    /\ AllRetryable(analysis.errors)

====
